---- MODULE Spec2Model ----
(***************************************************************************)
(* Model of ivadomed's MRI2DSegmentationDataset                            *)
(* (src/ivadomed/loader/mri2d_segmentation_dataset.py): the index build    *)
(* (load_filenames / prepare_indices) and the per-fetch sample assembly    *)
(* (__getitem__), run by several workers against one built dataset; and    *)
(* of the transforms DilateGT and ROICrop2D (src/ivadomed/transforms.py),  *)
(* one call of each.                                                       *)
(*                                                                         *)
(* Python lists are modelled as sequences; list positions stored in the    *)
(* data ('handler_index', the fetch index) keep Python's 0-based values.   *)
(* Arrays are modelled by their identity (kind, pair, slice, channel,      *)
(* rater), their shape and a 'touched' mark set by in-place writes.        *)
(***************************************************************************)
EXTENDS Integers, Sequences, FiniteSets, TLC

VARIABLES
    \* ---- configuration, fixed by __init__ --------------------------------
    filename_pairs,   \* the volumes: shape, and per slice what the filters say
    length,           \* self.length
    stride,           \* self.stride
    task,             \* self.task: "segmentation" | "classification"
    soft_gt,          \* self.soft_gt
    slice_filter_fn,  \* TRUE iff a slice filter is configured
    roi_params,       \* [suffix_set, thr_is_int]: suffix given, threshold an int
    layout,           \* [n_contrasts, n_classes, n_raters] of every bundle
    transform,        \* self.transform: "keep" | "shrink" (changes resolution)
    \* ---- dataset state ---------------------------------------------------
    handlers,         \* self.handlers
    indexes,          \* self.indexes
    phase,            \* "new" | "built" | "failed" (load_filenames raised)
    error,            \* which check of prepare_indices raised ("" if none)
    built,            \* <<handlers, indexes>> as load_filenames left them
    \* ---- per-worker state of __getitem__ ---------------------------------
    pc,               \* position of each worker inside __getitem__
    index,            \* the argument of the running fetch
    coord,            \* the PatchRecord read at line 187
    ref,              \* what seg_pair_slice / roi_pair_slice refer to
    local,            \* the worker's private copy made by copy.deepcopy
    idx_rater,        \* rater drawn at line 195 (-1: none drawn)
    metadata_roi,     \* local variables of __getitem__
    metadata_input,
    metadata_gt,
    stack_roi,
    stack_input,
    stack_gt,
    data_dict,        \* the returned sample
    raised,           \* exception raised by the fetch ("" if none)
    calls,            \* history: the calls made to self.transform, in order
    ops,              \* history: ground-truth steps performed by the fetch
    nfetch,           \* number of fetches each worker has started
    \* ---- module-level state ---------------------------------------------
    random_state,     \* the generator behind random.*: values drawn so far
    \* ---- one call of a transform of ivadomed/transforms.py --------------
    tname,            \* the transform object: "DilateGT" | "ROICrop2D" | ""
    dil_factor,       \* DilateGT.dil_factor
    crop_size,        \* ROICrop2D.size: <<th, tw>>
    labeled,          \* ROICrop2D.labeled
    sample_dict,      \* the sample dict passed to __call__
    sample_in,        \* history: the sample dict as it was passed
    tpc,              \* "ready" | "returned" | "raised"
    terror            \* exception raised by the call ("" if none)

cfgvars == <<filename_pairs, length, stride, task, soft_gt, slice_filter_fn,
             roi_params, layout, transform>>
dsvars == <<handlers, indexes, phase, error, built>>
fetchvars == <<pc, index, coord, ref, local, idx_rater, metadata_roi,
               metadata_input, metadata_gt, stack_roi, stack_input, stack_gt,
               data_dict, raised, calls, ops, nfetch>>
tfvars == <<tname, dil_factor, crop_size, labeled, sample_dict, sample_in,
            tpc, terror>>
vars == <<cfgvars, dsvars, fetchvars, random_state, tfvars>>

----------------------------------------------------------------------------
\* Bounds of the model.

\* Largest height / width of a slice, and largest length / stride component.
MaxDim == 3
\* Largest number of slices of a volume in the filtering configurations.
MaxSlices == 3
\* Fetches each worker may start.
MaxFetches == 1

Workers == {1, 2}

----------------------------------------------------------------------------
\* Generic helpers.

Min(a, b) == IF a < b THEN a ELSE b
Max(a, b) == IF a > b THEN a ELSE b

\* All sequences over S of length 0..n.
SeqUpTo(S, n) == UNION {[1..k -> S] : k \in 0..n}

\* Python's range(0, stop, step) for step > 0, as a sequence.
Range(stop, step) ==
    LET n == IF stop <= 0 THEN 0 ELSE (stop + step - 1) \div step
    IN  [k \in 1..n |-> (k - 1) * step]

----------------------------------------------------------------------------
\* Slice bundles, as SegmentationPair.get_pair_slice hands them over.

\* A metadata record: the transform parameters stored by the transforms of
\* each role (0: absent), the patch window and the shape recorded at build.
NoMeta == [roi_params |-> 0, im_params |-> 0, gt_params |-> 0,
           coord |-> <<>>, index_shape |-> <<>>]

\* An array, known by where it comes from.
Array(kind, p, s, ch, r, shape) ==
    [kind |-> kind, pair |-> p, slice |-> s, ch |-> ch, rater |-> r,
     shape |-> shape, touched |-> FALSE]

\* Shape of a ground-truth array: a mask for segmentation, a scalar label
\* (0-d array) for classification.
GtShape(gt_type, shape) == IF gt_type = "segmentation" THEN shape ELSE <<>>

\* seg_pair.get_pair_slice(s, gt_type): the input channels, and per label
\* class either one array or, with several raters, the list of the raters'
\* arrays; gt_metadata has the same nesting as gt.
SegPairSlice(p, s, shape, lay, gt_type) ==
    [input |-> [c \in 1..lay.n_contrasts |-> Array("input", p, s, c, 0, shape)],
     input_metadata |-> [c \in 1..lay.n_contrasts |-> NoMeta],
     gt |-> [c \in 1..lay.n_classes |->
               IF lay.n_raters = 0
               THEN [list |-> FALSE,
                     items |-> <<Array("gt", p, s, c, 0, GtShape(gt_type, shape))>>]
               ELSE [list |-> TRUE,
                     items |-> [r \in 1..lay.n_raters |->
                                  Array("gt", p, s, c, r - 1, GtShape(gt_type, shape))]]],
     gt_metadata |-> [c \in 1..lay.n_classes |->
               IF lay.n_raters = 0
               THEN [list |-> FALSE, items |-> <<NoMeta>>]
               ELSE [list |-> TRUE, items |-> [r \in 1..lay.n_raters |-> NoMeta]]]]

\* roi_pair.get_pair_slice(s, "segmentation"): 'gt' is the ROI mask, or
\* None when no ROI file is configured.
RoiPairSlice(p, s, shape, has_roi) ==
    [gt_none |-> ~has_roi,
     gt |-> IF has_roi THEN <<Array("roi", p, s, 1, 0, shape)>> ELSE <<>>,
     gt_metadata |-> IF has_roi THEN <<NoMeta>> ELSE <<>>]

\* imed_transforms.apply_preprocessing_transforms: the pair (seg, roi) that
\* becomes an item; the preprocessing keeps identity and shape of the arrays.
apply_preprocessing_transforms(seg, roi) == <<seg, roi>>

----------------------------------------------------------------------------
\* __init__ (lines 64-94).

\* self.is_2d_patch = True if self.length else False
is_2d_patch == length # <<>>

\* self.slice_filter_roi
slice_filter_roi == roi_params.suffix_set /\ roi_params.thr_is_int

----------------------------------------------------------------------------
\* load_filenames (lines 97-140), first part: the loop over the slices.

\* Lines 116-123: is the slice kept? sl.keep is what slice_filter_fn
\* returns for the slice, sl.roi_drop what filter_roi returns for its ROI.
Accepted_no_roi_filter(sl) == ~(slice_filter_fn /\ ~sl.keep)
Accepted(sl) ==
    /\ ~(slice_filter_fn /\ ~sl.keep)
    /\ ~(slice_filter_roi /\ sl.roi_drop)

\* Lines 129-133: the handler records the build-time shape in every input
\* metadata record.
WithIndexShape(item) ==
    LET seg == item[1]
        shp == seg.input[1].shape
    IN  <<[seg EXCEPT !.input_metadata =
              [c \in DOMAIN seg.input_metadata |->
                  [seg.input_metadata[c] EXCEPT !.index_shape = shp]]],
          item[2]>>

\* The items of one volume (lines 109-136), in slice order.
RECURSIVE ItemsOfPair(_, _, _)
ItemsOfPair(p, vol, s) ==
    IF s > Len(vol.slices) THEN <<>>
    ELSE LET sl == vol.slices[s]
             item == apply_preprocessing_transforms(
                         SegPairSlice(p, s, vol.shape, layout, task),
                         RoiPairSlice(p, s, vol.shape, roi_params.suffix_set))
             this == IF ~Accepted(sl) THEN <<>>
                     ELSE IF is_2d_patch THEN <<WithIndexShape(item)>>
                     ELSE <<item>>
         IN  this \o ItemsOfPair(p, vol, s + 1)

\* The items of all volumes (line 99), in filename-pair order.
RECURSIVE ItemsFrom(_)
ItemsFrom(p) ==
    IF p > Len(filename_pairs) THEN <<>>
    ELSE ItemsOfPair(p, filename_pairs[p], 1) \o ItemsFrom(p + 1)

----------------------------------------------------------------------------
\* prepare_indices (lines 142-168).

\* Lines 149-155: the checks made for one handler; "" when they pass.
CheckHandler(shape) ==
    IF Len(length) # 2 \/ Len(stride) # 2 THEN "length"
    ELSE IF stride[1] > length[1] \/ stride[1] <= 0 THEN "stride"
    ELSE IF length[1] > shape[1] THEN "size"
    ELSE IF stride[2] > length[2] \/ stride[2] <= 0 THEN "stride"
    ELSE IF length[2] > shape[2] THEN "size"
    ELSE ""

\* Lines 158-159 and 161-162: a start whose window passes the end of the
\* axis is moved back so that the window ends at the end of the axis.
Clamp_none(start, len, size) == start
Clamp(start, len, size) == IF start + len > size THEN size - len ELSE start

\* Lines 157 and 160: the starts along one axis, clamped.
Starts_short(len, str, size) ==
    LET r == Range(size - len, str) IN [k \in DOMAIN r |-> Clamp(r[k], len, size)]
Starts_inclusive(len, str, size) ==
    LET r == Range(size - len + str + 1, str)
    IN  [k \in DOMAIN r |-> Clamp(r[k], len, size)]
Starts(len, str, size) ==
    LET r == Range(size - len + str, str)
    IN  [k \in DOMAIN r |-> Clamp(r[k], len, size)]

\* Lines 157-168: the PatchRecords of handler i (0-based), x-major.
PatchRecords_y_major(i, shape) ==
    LET xs == Starts(length[1], stride[1], shape[1])
        ys == Starts(length[2], stride[2], shape[2])
        nx == Len(xs)
    IN  [k \in 1..(nx * Len(ys)) |->
            LET x == xs[((k - 1) % nx) + 1]
                y == ys[((k - 1) \div nx) + 1]
            IN  [x_min |-> x, x_max |-> x + length[1],
                 y_min |-> y, y_max |-> y + length[2],
                 handler_index |-> i]]
PatchRecords(i, shape) ==
    LET xs == Starts(length[1], stride[1], shape[1])
        ys == Starts(length[2], stride[2], shape[2])
        ny == Len(ys)
    IN  [k \in 1..(Len(xs) * ny) |->
            LET x == xs[((k - 1) \div ny) + 1]
                y == ys[((k - 1) % ny) + 1]
            IN  [x_min |-> x, x_max |-> x + length[1],
                 y_min |-> y, y_max |-> y + length[2],
                 handler_index |-> i]]

\* The loop of line 144 from handler i on: the records appended to idx, and
\* the error that stopped the loop ("" if none).
RECURSIVE PrepareFrom_rollback(_, _, _)
PrepareFrom_rollback(hs, i, idx) ==
    IF i >= Len(hs) THEN [indexes |-> idx, error |-> ""]
    ELSE LET shape == hs[i + 1][1].input[1].shape
             err == CheckHandler(shape)
         IN  IF err # "" THEN [indexes |-> <<>>, error |-> err]
             ELSE PrepareFrom_rollback(hs, i + 1, idx \o PatchRecords(i, shape))
RECURSIVE PrepareFrom(_, _, _)
PrepareFrom(hs, i, idx) ==
    IF i >= Len(hs) THEN [indexes |-> idx, error |-> ""]
    ELSE LET shape == hs[i + 1][1].input[1].shape
             err == CheckHandler(shape)
         IN  IF err # "" THEN [indexes |-> idx, error |-> err]
             ELSE PrepareFrom(hs, i + 1, idx \o PatchRecords(i, shape))

prepare_indices(hs, idx) == PrepareFrom(hs, 0, idx)

----------------------------------------------------------------------------
\* The transform pipeline and the metadata merge used by __getitem__.

NoneStack == [none |-> TRUE, kind |-> "", dims |-> <<>>, src |-> <<>>,
              win |-> <<>>, binarized |-> FALSE]

\* Shape of a transformed plane: the configured pipeline either keeps the
\* resolution or changes it (here: drops the last row).
TShape(shape) ==
    IF transform = "keep" \/ shape = <<>> THEN shape
    ELSE <<Max(shape[1] - 1, 0), shape[2]>>

\* The metadata key a transform of the given role writes.
Stamp(m, data_type) ==
    IF data_type = "roi" THEN [m EXCEPT !.roi_params = 1]
    ELSE IF data_type = "im" THEN [m EXCEPT !.im_params = 1]
    ELSE [m EXCEPT !.gt_params = 1]

\* self.transform(sample, metadata, data_type): (None, None) for a None
\* sample, otherwise the channels stacked at the transformed resolution
\* and the metadata with the parameters of the transforms stored in it.
Transform(sample_none, sample, metadata, data_type) ==
    IF sample_none THEN [stack |-> NoneStack, metadata |-> <<>>]
    ELSE [stack |-> [none |-> FALSE, kind |-> data_type,
                     dims |-> <<Len(sample)>> \o TShape(sample[1].shape),
                     src |-> sample, win |-> <<>>, binarized |-> FALSE],
          metadata |-> [k \in DOMAIN metadata |-> Stamp(metadata[k], data_type)]]

\* In-place effect of a transform on the arrays it was given.
Touch(sample) == [k \in DOMAIN sample |-> [sample[k] EXCEPT !.touched = TRUE]]

\* imed_loader_utils.update_metadata(src, dest): the transform parameters
\* defined in src override those of dest, every other key of dest is kept;
\* dest is returned unchanged when src is None or empty.
update_metadata(src, dest) ==
    IF src = <<>> THEN dest
    ELSE [k \in DOMAIN dest |->
            [dest[k] EXCEPT
               !.roi_params = IF src[1].roi_params # 0 THEN src[1].roi_params ELSE @,
               !.im_params = IF src[1].im_params # 0 THEN src[1].im_params ELSE @,
               !.gt_params = IF src[1].gt_params # 0 THEN src[1].gt_params ELSE @]]

\* imed_postpro.threshold_predictions(stack, thr=0.5).astype(np.uint8)
threshold_predictions(stack) == [stack EXCEPT !.binarized = TRUE]

----------------------------------------------------------------------------
\* Python semantics used by __getitem__.

\* seq[i] on a list of length n: a valid i is in -n..n-1, a negative one
\* counting from the end; anything else raises IndexError.
ListIndexValid(n, i) == -n <= i /\ i < n
ListPos(n, i) == IF i < 0 THEN i + n ELSE i

\* random.randint(a, b): any integer of a..b, both ends included.
randint(a, b) == a..b

\* t[a:b] along an axis of size n, for 0 <= a <= b: the part of the window
\* that exists; no error is raised when the window passes the end.
SliceLo(a, n) == Min(a, n)
SliceHi(b, n) == Min(b, n)

\* copy.deepcopy(obj): a fresh object owned by the caller. An object is
\* known by the list that holds it ("handlers", "indexes") and its
\* position there, or is the worker's own ("local").
deepcopy_alias(r) == r
deepcopy(r) == [store |-> "local", at |-> r.at]

----------------------------------------------------------------------------
\* load_filenames (lines 97-140) as one step: the slice loop, then
\* prepare_indices when patching is on. An error of prepare_indices leaves
\* the lists as they were when it was raised.

LoadFilenames ==
    /\ phase = "new"
    /\ LET items == ItemsFrom(1)
           hs == IF is_2d_patch THEN handlers \o items ELSE handlers
           idx == IF is_2d_patch THEN indexes ELSE indexes \o items
           res == IF is_2d_patch THEN prepare_indices(hs, idx)
                  ELSE [indexes |-> idx, error |-> ""]
       IN  /\ handlers' = hs
           /\ indexes' = res.indexes
           /\ error' = res.error
           /\ phase' = IF res.error = "" THEN "built" ELSE "failed"
           /\ built' = <<hs, res.indexes>>
    /\ UNCHANGED <<cfgvars, tfvars, random_state,
                   fetchvars>>

----------------------------------------------------------------------------
\* __getitem__ (lines 176-286), one worker's fetch in steps. Modality
\* dropout is off (is_input_dropout = False) in this model.

NoRef == [store |-> "none", at |-> 0]
NoCoord == [x_min |-> 0, x_max |-> 0, y_min |-> 0, y_max |-> 0,
            handler_index |-> 0]
NoDict == [input |-> NoneStack, gt |-> NoneStack, roi |-> NoneStack,
           input_metadata |-> <<>>, gt_metadata |-> <<>>,
           roi_metadata |-> <<>>]

\* The pair (seg_pair_slice, roi_pair_slice) worker w works on.
Bundle(w) ==
    CASE ref[w].store = "handlers" -> handlers[ref[w].at + 1]
      [] ref[w].store = "indexes" -> indexes[ref[w].at + 1]
      [] OTHER -> local[w]

\* An in-place write to that pair lands in the object it refers to.
SetBundle(w, pair) ==
    CASE ref[w].store = "handlers" ->
            /\ handlers' = [handlers EXCEPT ![ref[w].at + 1] = pair]
            /\ UNCHANGED <<indexes, local>>
      [] ref[w].store = "indexes" ->
            /\ indexes' = [indexes EXCEPT ![ref[w].at + 1] = pair]
            /\ UNCHANGED <<handlers, local>>
      [] OTHER ->
            /\ local' = [local EXCEPT ![w] = pair]
            /\ UNCHANGED <<handlers, indexes>>

\* The order of the steps of a fetch after the copy (lines 192-238).
StepAfter_input_first(step) ==
    CASE step = "rater" -> "im" [] step = "im" -> "roi"
      [] step = "roi" -> "gt" [] OTHER -> "patch"
StepAfter(step) ==
    CASE step = "rater" -> "roi" [] step = "roi" -> "im"
      [] step = "im" -> "gt" [] OTHER -> "patch"

\* The indices a caller may pass: all valid ones and some on either side.
FetchIndices == (0 - Len(indexes) - 1)..Len(indexes)

\* Lines 186-190: look the entry up and copy its bundle.
Begin(w, i) ==
    /\ phase # "new"
    /\ pc[w] = "idle"
    /\ nfetch[w] < MaxFetches
    /\ nfetch' = [nfetch EXCEPT ![w] = @ + 1]
    /\ index' = [index EXCEPT ![w] = i]
    /\ IF ~ListIndexValid(Len(indexes), i)
       THEN /\ raised' = [raised EXCEPT ![w] = "IndexError"]
            /\ pc' = [pc EXCEPT ![w] = "raised"]
            /\ UNCHANGED <<coord, ref, local>>
       ELSE LET pos == ListPos(Len(indexes), i)
                from == IF is_2d_patch
                        THEN [store |-> "handlers",
                              at |-> indexes[pos + 1].handler_index]
                        ELSE [store |-> "indexes", at |-> pos]
                obj == IF is_2d_patch THEN handlers[from.at + 1]
                       ELSE indexes[pos + 1]
            IN  /\ coord' = [coord EXCEPT ![w] =
                                IF is_2d_patch THEN indexes[pos + 1] ELSE NoCoord]
                /\ ref' = [ref EXCEPT ![w] = deepcopy(from)]
                /\ local' = [local EXCEPT ![w] = obj]
                /\ pc' = [pc EXCEPT ![w] = "rater"]
                /\ UNCHANGED raised
    /\ UNCHANGED <<cfgvars, tfvars, random_state,
                   dsvars, idx_rater, metadata_roi, metadata_input,
                   metadata_gt, stack_roi, stack_input, stack_gt, data_dict,
                   calls, ops>>

\* Lines 198-200: entry c of gt (or of gt_metadata) becomes its item of
\* rater r.
SelectRater_per_class(entries, r) ==
    [c \in DOMAIN entries |->
        [list |-> FALSE,
         items |-> <<entries[c].items[((r + c - 1) % Len(entries[c].items)) + 1]>>]]
SelectRater(entries, r) ==
    [c \in DOMAIN entries |->
        [list |-> FALSE, items |-> <<entries[c].items[r + 1]>>]]

\* The list of the single items of a resolved gt / gt_metadata.
Items(entries) == [c \in DOMAIN entries |-> entries[c].items[1]]
AsEntries(items) == [c \in DOMAIN items |-> [list |-> FALSE, items |-> <<items[c]>>]]

\* Lines 192-204: resolve the rater, bind the metadata lists.
PickRater(w) ==
    /\ pc[w] = "rater"
    /\ LET seg == Bundle(w)[1]
           roi == Bundle(w)[2]
       IN  IF seg.gt[1].list
           THEN \E r \in randint(0, Len(seg.gt[1].items) - 1) :
                  LET seg2 == [seg EXCEPT !.gt = SelectRater(seg.gt, r),
                                         !.gt_metadata = SelectRater(seg.gt_metadata, r)]
                  IN  /\ idx_rater' = [idx_rater EXCEPT ![w] = r]
                      /\ random_state' = random_state + 1
                      /\ SetBundle(w, <<seg2, roi>>)
                      /\ metadata_gt' = [metadata_gt EXCEPT ![w] = Items(seg2.gt_metadata)]
           ELSE /\ UNCHANGED <<idx_rater, handlers, indexes, local, random_state>>
                /\ metadata_gt' = [metadata_gt EXCEPT ![w] = Items(seg.gt_metadata)]
    /\ metadata_input' = [metadata_input EXCEPT ![w] = Bundle(w)[1].input_metadata]
    /\ metadata_roi' = [metadata_roi EXCEPT ![w] = Bundle(w)[2].gt_metadata]
    /\ pc' = [pc EXCEPT ![w] = StepAfter("rater")]
    /\ UNCHANGED <<cfgvars, tfvars,
                   phase, error, built, index, coord, ref, stack_roi,
                   stack_input, stack_gt, data_dict, raised, calls, ops, nfetch>>

\* Lines 208-213: transform the ROI, merge its metadata into the input's.
TransformROI(w) ==
    /\ pc[w] = "roi"
    /\ LET seg == Bundle(w)[1]
           roi == Bundle(w)[2]
           out == Transform(roi.gt_none, roi.gt, metadata_roi[w], "roi")
           mi == update_metadata(out.metadata, metadata_input[w])
       IN  /\ calls' = [calls EXCEPT ![w] =
                 Append(@, [data_type |-> "roi", metadata |-> metadata_roi[w],
                            out |-> out.metadata])]
           /\ stack_roi' = [stack_roi EXCEPT ![w] = out.stack]
           /\ metadata_roi' = [metadata_roi EXCEPT ![w] = out.metadata]
           /\ metadata_input' = [metadata_input EXCEPT ![w] = mi]
           /\ SetBundle(w, <<[seg EXCEPT !.input_metadata = mi],
                             [roi EXCEPT !.gt = Touch(@),
                                         !.gt_metadata = out.metadata]>>)
    /\ pc' = [pc EXCEPT ![w] = StepAfter("roi")]
    /\ UNCHANGED <<cfgvars, tfvars, random_state,
                   phase, error, built, index, coord, ref, idx_rater,
                   metadata_gt, stack_input, stack_gt, data_dict, raised, ops,
                   nfetch>>

\* Lines 216-221: transform the input, merge its metadata into the gt's.
TransformInput(w) ==
    /\ pc[w] = "im"
    /\ LET seg == Bundle(w)[1]
           roi == Bundle(w)[2]
           out == Transform(FALSE, seg.input, metadata_input[w], "im")
           mg == update_metadata(out.metadata, metadata_gt[w])
       IN  /\ calls' = [calls EXCEPT ![w] =
                 Append(@, [data_type |-> "im", metadata |-> metadata_input[w],
                            out |-> out.metadata])]
           /\ stack_input' = [stack_input EXCEPT ![w] = out.stack]
           /\ metadata_input' = [metadata_input EXCEPT ![w] = out.metadata]
           /\ metadata_gt' = [metadata_gt EXCEPT ![w] = mg]
           /\ SetBundle(w, <<[seg EXCEPT !.input = Touch(@),
                                         !.input_metadata = out.metadata,
                                         !.gt_metadata = AsEntries(mg)],
                             roi>>)
    /\ pc' = [pc EXCEPT ![w] = StepAfter("im")]
    /\ UNCHANGED <<cfgvars, tfvars, random_state,
                   phase, error, built, index, coord, ref, idx_rater,
                   metadata_roi, stack_roi, stack_gt, data_dict, raised, ops,
                   nfetch>>

\* torch.from_numpy(seg_pair_slice["gt"][0]).expand(1): the label of the
\* first class as a tensor of one element.
LabelTensor(arr) ==
    [none |-> FALSE, kind |-> "label", dims |-> <<1>>, src |-> <<arr>>,
     win |-> <<>>, binarized |-> FALSE]

\* Lines 223-236: the ground truth, by task.
GroundTruth(w) ==
    /\ pc[w] = "gt"
    /\ LET seg == Bundle(w)[1]
           roi == Bundle(w)[2]
           out == Transform(FALSE, Items(seg.gt), metadata_gt[w], "gt")
       IN  IF task = "segmentation"
           THEN /\ calls' = [calls EXCEPT ![w] =
                      Append(@, [data_type |-> "gt", metadata |-> metadata_gt[w],
                                 out |-> out.metadata])]
                /\ metadata_gt' = [metadata_gt EXCEPT ![w] = out.metadata]
                /\ SetBundle(w, <<[seg EXCEPT !.gt = AsEntries(Touch(Items(@))),
                                              !.gt_metadata = AsEntries(out.metadata)],
                                  roi>>)
                /\ IF ~soft_gt
                   THEN /\ stack_gt' = [stack_gt EXCEPT ![w] =
                                           threshold_predictions(out.stack)]
                        /\ ops' = [ops EXCEPT ![w] = Append(@, "binarize")]
                   ELSE /\ stack_gt' = [stack_gt EXCEPT ![w] = out.stack]
                        /\ UNCHANGED ops
           ELSE /\ stack_gt' = [stack_gt EXCEPT ![w] = LabelTensor(seg.gt[1].items[1])]
                /\ UNCHANGED <<calls, metadata_gt, ops, handlers, indexes, local>>
    /\ pc' = [pc EXCEPT ![w] = StepAfter("gt")]
    /\ UNCHANGED <<cfgvars, tfvars, random_state,
                   phase, error, built, index, coord, ref, idx_rater,
                   metadata_roi, metadata_input, stack_roi, stack_input,
                   data_dict, raised, nfetch>>

\* t[:, x_min:x_max, y_min:y_max] needs a tensor of three dimensions.
CropRaises(stack) == Len(stack.dims) < 3

\* Lines 256-258, 262-264, 268-270: the window cut out of a (C,H,W) tensor.
Crop_cols_only(stack, c) ==
    LET y0 == SliceLo(c.y_min, stack.dims[3])
        y1 == SliceHi(c.y_max, stack.dims[3])
    IN  [stack EXCEPT !.dims = <<stack.dims[1], stack.dims[2], y1 - y0>>,
                      !.win = <<0, stack.dims[2], y0, y1>>]
Crop_short_end(stack, c) ==
    LET x0 == SliceLo(c.x_min, stack.dims[2])
        x1 == SliceHi(c.x_max - 1, stack.dims[2])
        y0 == SliceLo(c.y_min, stack.dims[3])
        y1 == SliceHi(c.y_max - 1, stack.dims[3])
    IN  [stack EXCEPT !.dims = <<stack.dims[1], x1 - x0, y1 - y0>>,
                      !.win = <<x0, x1, y0, y1>>]
Crop(stack, c) ==
    LET x0 == SliceLo(c.x_min, stack.dims[2])
        x1 == SliceHi(c.x_max, stack.dims[2])
        y0 == SliceLo(c.y_min, stack.dims[3])
        y1 == SliceHi(c.y_max, stack.dims[3])
    IN  [stack EXCEPT !.dims = <<stack.dims[1], x1 - x0, y1 - y0>>,
                      !.win = <<x0, x1, y0, y1>>]

\* Lines 238-286: cut the patch out, or pass the tensors through.
Assemble(w) ==
    /\ pc[w] = "patch"
    /\ IF is_2d_patch
       THEN LET c == coord[w]
                seg == Bundle(w)[1]
                roi == Bundle(w)[2]
                mi == [k \in DOMAIN metadata_input[w] |->
                         [metadata_input[w][k] EXCEPT
                            !.coord = <<c.x_min, c.x_max, c.y_min, c.y_max>>]]
                cropgt == ~stack_gt[w].none
            IN  /\ metadata_input' = [metadata_input EXCEPT ![w] = mi]
                /\ SetBundle(w, <<[seg EXCEPT !.input_metadata = mi], roi>>)
                /\ ops' = [ops EXCEPT ![w] =
                              IF cropgt THEN Append(@, "crop_gt") ELSE @]
                /\ IF cropgt /\ CropRaises(stack_gt[w])
                   THEN /\ raised' = [raised EXCEPT ![w] = "IndexError"]
                        /\ pc' = [pc EXCEPT ![w] = "raised"]
                        /\ UNCHANGED data_dict
                   ELSE /\ data_dict' = [data_dict EXCEPT ![w] =
                              [input |-> Crop(stack_input[w], c),
                               gt |-> IF cropgt THEN Crop(stack_gt[w], c)
                                      ELSE NoneStack,
                               roi |-> IF stack_roi[w].none THEN NoneStack
                                       ELSE Crop(stack_roi[w], c),
                               input_metadata |-> mi,
                               gt_metadata |-> metadata_gt[w],
                               roi_metadata |-> metadata_roi[w]]]
                        /\ pc' = [pc EXCEPT ![w] = "done"]
                        /\ UNCHANGED raised
       ELSE /\ data_dict' = [data_dict EXCEPT ![w] =
                  [input |-> stack_input[w], gt |-> stack_gt[w],
                   roi |-> stack_roi[w],
                   input_metadata |-> metadata_input[w],
                   gt_metadata |-> metadata_gt[w],
                   roi_metadata |-> metadata_roi[w]]]
            /\ pc' = [pc EXCEPT ![w] = "done"]
            /\ UNCHANGED <<metadata_input, handlers, indexes, local, ops, raised>>
    /\ UNCHANGED <<cfgvars, tfvars, random_state,
                   phase, error, built, index, coord, ref, idx_rater,
                   metadata_roi, metadata_gt, stack_roi, stack_input, stack_gt,
                   calls, nfetch>>

\* The caller takes the sample (or the exception); the locals are gone.
Return(w) ==
    /\ pc[w] \in {"done", "raised"}
    /\ pc' = [pc EXCEPT ![w] = "idle"]
    /\ index' = [index EXCEPT ![w] = 0]
    /\ coord' = [coord EXCEPT ![w] = NoCoord]
    /\ ref' = [ref EXCEPT ![w] = NoRef]
    /\ local' = [local EXCEPT ![w] = <<>>]
    /\ idx_rater' = [idx_rater EXCEPT ![w] = -1]
    /\ metadata_roi' = [metadata_roi EXCEPT ![w] = <<>>]
    /\ metadata_input' = [metadata_input EXCEPT ![w] = <<>>]
    /\ metadata_gt' = [metadata_gt EXCEPT ![w] = <<>>]
    /\ stack_roi' = [stack_roi EXCEPT ![w] = NoneStack]
    /\ stack_input' = [stack_input EXCEPT ![w] = NoneStack]
    /\ stack_gt' = [stack_gt EXCEPT ![w] = NoneStack]
    /\ data_dict' = [data_dict EXCEPT ![w] = NoDict]
    /\ raised' = [raised EXCEPT ![w] = ""]
    /\ calls' = [calls EXCEPT ![w] = <<>>]
    /\ ops' = [ops EXCEPT ![w] = <<>>]
    /\ UNCHANGED <<cfgvars, tfvars, random_state,
                   dsvars, nfetch>>

----------------------------------------------------------------------------
\* DilateGT of ivadomed/transforms.py. A ground-truth mask is a function
\* from the cells of a small grid to {0, 1}.

MaskRows == 1..3
Cells == MaskRows \X (1..MaxDim)
Masks == [Cells -> {0, 1}]

\* The names bound in the namespace of transforms.py (lines 1-8, 11, 15, 62).
ModuleNames ==
    {"random", "np", "Image", "F", "label", "center_of_mass",
     "binary_dilation", "binary_fill_holes", "binary_closing",
     "generate_binary_structure", "mt_transforms", "get_transform_names",
     "ROICrop2D", "DilateGT"}

\* np.sum of a mask of zeros and ones.
np_sum(arr) == Cardinality({c \in Cells : arr[c] # 0})

\* Line 94, 98: label() finds at least one object, so the loop body runs.
HasObjects(arr) == \E c \in Cells : arr[c] # 0

\* Lines 92-116: the first turn of the loop evaluates math.sqrt at line
\* 102, and transforms.py binds no name math.
dilate_arr(arr, factor) ==
    IF HasObjects(arr) /\ "math" \notin ModuleNames
    THEN [raised |-> "NameError"]
    ELSE [raised |-> ""]

\* Line 162: the condition under which a mask is dilated.
DilateGuard_nonneg(factor, gt_data) == factor >= 0 /\ np_sum(gt_data) # 0
DilateGuard(factor, gt_data) == factor > 0 /\ np_sum(gt_data) # 0

\* Lines 158-179: DilateGT.__call__. Past dilate_arr, random_holes draws
\* twice from the module-level generator (lines 127, 129) and the mask that
\* post_processing leaves replaces sample['gt'].
DilateGT_call ==
    /\ tname = "DilateGT"
    /\ tpc = "ready"
    /\ LET gt_data == sample_dict.gt
       IN  IF DilateGuard(dil_factor, gt_data)
           THEN IF dilate_arr(gt_data, dil_factor).raised # ""
                THEN /\ tpc' = "raised"
                     /\ terror' = dilate_arr(gt_data, dil_factor).raised
                     /\ UNCHANGED <<sample_dict, random_state>>
                ELSE /\ random_state' = random_state + 2
                     /\ \E gt_pp \in Masks :
                           sample_dict' = [sample_dict EXCEPT !.gt = gt_pp]
                     /\ tpc' = "returned"
                     /\ UNCHANGED terror
           ELSE /\ tpc' = "returned"
                /\ UNCHANGED <<sample_dict, random_state, terror>>
    /\ UNCHANGED <<cfgvars, dsvars, fetchvars, tname, dil_factor, crop_size,
                   labeled, sample_in>>

----------------------------------------------------------------------------
\* ROICrop2D of ivadomed/transforms.py. An image is known by the array it
\* was cut from and by the window it holds of it (top-left corner relative
\* to that array, height, width).

Image(src, h, w) ==
    [src |-> src, top |-> 0, left |-> 0, height |-> h, width |-> w]

\* F.crop(img, top, left, height, width) as called at lines 45 and 51: the
\* window is relative to the image it is given.
F_crop(img, top, left, height, width) ==
    [src |-> img.src, top |-> img.top + top, left |-> img.left + left,
     height |-> height, width |-> width]

\* int(round(n / 2.)) of line 31 for n >= 0: Python rounds halves to even.
RoundHalf(n) ==
    IF n % 2 = 0 THEN n \div 2
    ELSE IF (n \div 2) % 2 = 0 THEN n \div 2 ELSE (n \div 2) + 1

\* Lines 38-39: top-left corner of the crop area, from the rounded centre
\* of mass (x_roi, y_roi) of the ROI.
CropCorner(roi, sz) ==
    [fh |-> roi[2] - RoundHalf(sz[1]), fw |-> roi[1] - RoundHalf(sz[2])]

\* Lines 24-56: ROICrop2D.__call__. propagate_params (line 42) stores the
\* parameters in the input metadata.
ROICrop2D_call ==
    /\ tname = "ROICrop2D"
    /\ tpc = "ready"
    /\ LET w == sample_dict.input.width
           h == sample_dict.input.height
           th == crop_size[1]
           tw == crop_size[2]
           fh == CropCorner(sample_dict.roi, crop_size).fh
           fw == CropCorner(sample_dict.roi, crop_size).fw
           input_data == F_crop(sample_dict.input, fh, fw, th, tw)
           rdict == [sample_dict EXCEPT
                        !.input = input_data,
                        !.input_metadata = [centercrop |-> <<fh, fw, w, h>>]]
       IN  sample_dict' =
               IF labeled
               THEN [rdict EXCEPT
                        !.gt = F_crop(input_data, fh, fw, th, tw),
                        !.gt_metadata = [centercrop |-> <<fh, fw, w, h>>]]
               ELSE rdict
    /\ tpc' = "returned"
    /\ UNCHANGED <<cfgvars, dsvars, fetchvars, random_state, tname, dil_factor,
                   crop_size, labeled, sample_in, terror>>

----------------------------------------------------------------------------
\* Initial states: a dataset object right after __init__, no fetch running.

InitDataset ==
    /\ handlers = <<>>
    /\ indexes = <<>>
    /\ phase = "new"
    /\ error = ""
    /\ built = <<<<>>, <<>>>>

InitFetch ==
    /\ pc = [w \in Workers |-> "idle"]
    /\ index = [w \in Workers |-> 0]
    /\ coord = [w \in Workers |-> NoCoord]
    /\ ref = [w \in Workers |-> NoRef]
    /\ local = [w \in Workers |-> <<>>]
    /\ idx_rater = [w \in Workers |-> -1]
    /\ metadata_roi = [w \in Workers |-> <<>>]
    /\ metadata_input = [w \in Workers |-> <<>>]
    /\ metadata_gt = [w \in Workers |-> <<>>]
    /\ stack_roi = [w \in Workers |-> NoneStack]
    /\ stack_input = [w \in Workers |-> NoneStack]
    /\ stack_gt = [w \in Workers |-> NoneStack]
    /\ data_dict = [w \in Workers |-> NoDict]
    /\ raised = [w \in Workers |-> ""]
    /\ calls = [w \in Workers |-> <<>>]
    /\ ops = [w \in Workers |-> <<>>]
    /\ nfetch = [w \in Workers |-> 0]

Dims == 1..MaxDim
Shapes == Dims \X Dims
\* One slice that every filter keeps.
PlainSlice == [keep |-> TRUE, roi_drop |-> FALSE]
\* What the slice filter and the ROI filter answer for a slice.
SliceOutcomes == [keep : BOOLEAN, roi_drop : BOOLEAN]
\* roi_params: no suffix or a suffix, the threshold None or an integer.
RoiParams == [suffix_set : BOOLEAN, thr_is_int : BOOLEAN]
NoRoiParams == [suffix_set |-> FALSE, thr_is_int |-> FALSE]

\* Shapes of a second volume: smaller, other and larger than the first.
SecondShapes == {<<1, 1>>, <<2, 3>>, <<MaxDim, MaxDim>>}

\* One slice that the slice filter rejects.
DroppedSlice == [keep |-> FALSE, roi_drop |-> FALSE]

\* Tiling configurations: one one-slice volume of any shape, two of them,
\* or one whose only slice the slice filter rejects (filename_pairs itself
\* is never empty: __init__ reads filename_pairs[0]); every length and
\* stride of two components over 0..MaxDim, and length / stride lists of
\* the wrong size.
InitTiling ==
    /\ filename_pairs \in
          {<<[shape |-> <<2, 2>>, slices |-> <<DroppedSlice>>]>>}
          \cup {<<[shape |-> a, slices |-> <<PlainSlice>>]>> : a \in Shapes}
          \cup {<<[shape |-> a, slices |-> <<PlainSlice>>],
                  [shape |-> b, slices |-> <<PlainSlice>>]>> :
                a \in Shapes, b \in SecondShapes}
    /\ \/ /\ length \in (0..MaxDim) \X (0..MaxDim)
          /\ stride \in (0..MaxDim) \X (0..MaxDim)
       \/ /\ length \in {<<1>>, <<1, 1, 1>>}
          /\ stride \in {<<>>, <<1>>, <<1, 1>>, <<1, 1, 1>>}
       \/ /\ length = <<1, 1>>
          /\ stride \in {<<>>, <<1>>, <<1, 1, 1>>}
    /\ task = "segmentation"
    /\ soft_gt = FALSE
    /\ slice_filter_fn = TRUE
    /\ roi_params = NoRoiParams
    /\ layout = [n_contrasts |-> 1, n_classes |-> 1, n_raters |-> 0]
    /\ transform = "keep"

\* Filtering configurations: a volume of 1..MaxSlices slices and possibly
\* a second one of one slice, every filter setting, with and without
\* patching.
InitFiltering ==
    /\ filename_pairs \in
          {<<[shape |-> <<2, 2>>, slices |-> a]>> :
              a \in SeqUpTo(SliceOutcomes, MaxSlices) \ {<<>>}}
          \cup {<<[shape |-> <<2, 2>>, slices |-> a],
                  [shape |-> <<1, 2>>, slices |-> <<b>>]>> :
              a \in SeqUpTo(SliceOutcomes, MaxSlices) \ {<<>>},
              b \in SliceOutcomes}
    /\ length \in {<<>>, <<1, 1>>}
    /\ stride = length
    /\ task = "segmentation"
    /\ soft_gt = FALSE
    /\ slice_filter_fn \in BOOLEAN
    /\ roi_params \in RoiParams
    /\ layout = [n_contrasts |-> 1, n_classes |-> 1, n_raters |-> 0]
    /\ transform = "keep"

\* The worked examples of an axis of 10 with length 4 and stride 3, on
\* either axis and on both.
InitExamples ==
    /\ filename_pairs \in
          {<<[shape |-> a, slices |-> <<PlainSlice>>]>> :
              a \in {<<10, 4>>, <<4, 10>>, <<10, 10>>}}
    /\ length = <<4, 4>>
    /\ stride = <<3, 3>>
    /\ task = "segmentation"
    /\ soft_gt = FALSE
    /\ slice_filter_fn = FALSE
    /\ roi_params = NoRoiParams
    /\ layout = [n_contrasts |-> 1, n_classes |-> 1, n_raters |-> 0]
    /\ transform = "keep"

\* The module-level generator of random, nothing drawn yet.
InitRandom == random_state = 0

\* No transform of ivadomed/transforms.py is being called.
NoTransformCall ==
    /\ tname = ""
    /\ dil_factor = 0
    /\ crop_size = <<>>
    /\ labeled = FALSE
    /\ sample_dict = <<>>
    /\ sample_in = <<>>
    /\ tpc = ""
    /\ terror = ""

InitBuild ==
    /\ InitTiling \/ InitFiltering \/ InitExamples
    /\ InitDataset /\ InitFetch /\ InitRandom /\ NoTransformCall

NextBuild == LoadFilenames

SpecBuild == InitBuild /\ [][NextBuild]_vars

\* Fetch configurations: two one-slice volumes, patched (three patches, the
\* last row of the first volume reached only by a flush-bottom tile) or
\* not; both tasks; a pipeline that keeps or changes the resolution; and
\* three bundle layouts (single rater with ROI; two raters and two classes,
\* soft labels, no ROI; two raters and two classes with ROI).
Layouts ==
    {[lay |-> [n_contrasts |-> 1, n_classes |-> 1, n_raters |-> 0],
      roi |-> TRUE, soft |-> FALSE],
     [lay |-> [n_contrasts |-> 2, n_classes |-> 2, n_raters |-> 2],
      roi |-> FALSE, soft |-> TRUE],
     [lay |-> [n_contrasts |-> 1, n_classes |-> 2, n_raters |-> 2],
      roi |-> TRUE, soft |-> FALSE]}

InitConfig ==
    /\ filename_pairs = <<[shape |-> <<3, 2>>, slices |-> <<PlainSlice>>],
                          [shape |-> <<2, 2>>, slices |-> <<PlainSlice>>]>>
    /\ length \in {<<>>, <<2, 2>>}
    /\ stride = length
    /\ task \in {"segmentation", "classification"}
    /\ slice_filter_fn = FALSE
    /\ \E v \in Layouts :
          /\ layout = v.lay
          /\ soft_gt = v.soft
          /\ roi_params = [suffix_set |-> v.roi, thr_is_int |-> FALSE]
    /\ transform \in {"keep", "shrink"}

\* The end-to-end example: one slice of shape (40,48), patched with
\* length = stride = [40,48], segmentation.
InitFullSize ==
    /\ filename_pairs = <<[shape |-> <<40, 48>>, slices |-> <<PlainSlice>>]>>
    /\ length = <<40, 48>>
    /\ stride = length
    /\ task = "segmentation"
    /\ slice_filter_fn = FALSE
    /\ \E v \in Layouts :
          /\ layout = v.lay
          /\ soft_gt = v.soft
          /\ roi_params = [suffix_set |-> v.roi, thr_is_int |-> FALSE]
    /\ transform \in {"keep", "shrink"}

Init ==
    /\ InitConfig \/ InitFullSize
    /\ InitDataset /\ InitFetch /\ InitRandom /\ NoTransformCall

Next ==
    \/ LoadFilenames
    \/ \E w \in Workers :
          \/ \E i \in FetchIndices : Begin(w, i)
          \/ PickRater(w)
          \/ TransformROI(w)
          \/ TransformInput(w)
          \/ GroundTruth(w)
          \/ Assemble(w)
          \/ Return(w)

Spec == Init /\ [][Next]_vars

\* A DilateGT about to be called: any factor below, at and above zero, any
\* mask of the grid.
DilFactors == {-1, 0, 1, 2}
InitDilate ==
    /\ tname = "DilateGT"
    /\ dil_factor \in DilFactors
    /\ crop_size = <<>>
    /\ labeled = FALSE
    /\ \E m \in Masks :
          /\ sample_dict = [gt |-> m]
          /\ sample_in = [gt |-> m]
    /\ tpc = "ready"
    /\ terror = ""

\* No dataset is involved in a transform call.
InitNoDataset ==
    /\ filename_pairs = <<[shape |-> <<1, 1>>, slices |-> <<PlainSlice>>]>>
    /\ length = <<>>
    /\ stride = <<>>
    /\ task = "segmentation"
    /\ soft_gt = FALSE
    /\ slice_filter_fn = FALSE
    /\ roi_params = NoRoiParams
    /\ layout = [n_contrasts |-> 1, n_classes |-> 1, n_raters |-> 0]
    /\ transform = "keep"

\* An ROICrop2D about to be called: any crop size, labeled or not, an
\* input and a ground truth of any shape, an ROI with its centre of mass
\* on any pixel.
InitCrop ==
    /\ tname = "ROICrop2D"
    /\ dil_factor = 0
    /\ crop_size \in Shapes
    /\ labeled \in BOOLEAN
    /\ \E shape \in Shapes :
          \E x_roi \in 0..(shape[1] - 1) : \E y_roi \in 0..(shape[2] - 1) :
              LET d == [input |-> Image("input", shape[1], shape[2]),
                        gt |-> Image("gt", shape[1], shape[2]),
                        roi |-> <<x_roi, y_roi>>,
                        input_metadata |-> [centercrop |-> <<>>],
                        gt_metadata |-> [centercrop |-> <<>>]]
              IN  sample_dict = d /\ sample_in = d
    /\ tpc = "ready"
    /\ terror = ""

InitTransforms ==
    /\ InitDilate \/ InitCrop
    /\ InitNoDataset /\ InitDataset /\ InitFetch /\ InitRandom

NextTransforms == DilateGT_call \/ ROICrop2D_call

SpecTransforms == InitTransforms /\ [][NextTransforms]_vars

----------------------------------------------------------------------------
\* Properties of the index build (checked under SpecBuild).

\* Shape of handler h (1-based position in handlers).
HandlerShape(h) == handlers[h][1].input[1].shape

\* 0 < S <= L <= size on both axes of a handler of the given shape.
ValidGeometry(shape) ==
    /\ Len(length) = 2 /\ Len(stride) = 2
    /\ \A a \in 1..2 : 0 < stride[a] /\ stride[a] <= length[a]
                       /\ length[a] <= shape[a]

\* Some record of the index is a tile moved back to end at the last row.
FlushBottomTile(k) ==
    /\ indexes[k].x_min % stride[1] # 0
    /\ indexes[k].x_max = HandlerShape(indexes[k].handler_index + 1)[1]
\* ... or at the last column.
FlushRightTile(k) ==
    /\ indexes[k].y_min % stride[2] # 0
    /\ indexes[k].y_max = HandlerShape(indexes[k].handler_index + 1)[2]

\* C1 - Patch coverage: after a build in patch mode, for every handler whose
\* shape, length and stride satisfy 0 < S <= L <= size on both axes, every
\* pixel of the handler lies in the window of at least one PatchRecord that
\* carries the handler's index.
C1_PatchCoverage ==
    (phase = "built" /\ is_2d_patch) =>
        \A h \in DOMAIN handlers :
            ValidGeometry(HandlerShape(h)) =>
                \A px \in 0..(HandlerShape(h)[1] - 1) :
                    \A py \in 0..(HandlerShape(h)[2] - 1) :
                        \E k \in DOMAIN indexes :
                            /\ indexes[k].handler_index = h - 1
                            /\ indexes[k].x_min <= px /\ px < indexes[k].x_max
                            /\ indexes[k].y_min <= py /\ py < indexes[k].y_max

\* A build in patch mode with two handlers, one of which needs a moved-back
\* tile to have its last row covered.
C1_Witness ==
    /\ phase = "built" /\ is_2d_patch
    /\ Len(handlers) = 2
    /\ \E k \in DOMAIN indexes : FlushBottomTile(k)

\* C2 - PatchRecord geometry: after a successful build in patch mode every
\* entry of indexes has a window of exactly length[0] x length[1] that lies
\* inside the shape of the handler it names, and names an existing handler.
C2_PatchGeometry ==
    (phase = "built" /\ is_2d_patch) =>
        \A k \in DOMAIN indexes :
            LET r == indexes[k] IN
            /\ 0 <= r.handler_index /\ r.handler_index < Len(handlers)
            /\ r.x_max - r.x_min = length[1]
            /\ r.y_max - r.y_min = length[2]
            /\ 0 <= r.x_min /\ r.x_max <= HandlerShape(r.handler_index + 1)[1]
            /\ 0 <= r.y_min /\ r.y_max <= HandlerShape(r.handler_index + 1)[2]

\* A built index holding a tile moved back on both axes.
C2_Witness ==
    /\ phase = "built" /\ is_2d_patch
    /\ \E k \in DOMAIN indexes : FlushBottomTile(k) /\ FlushRightTile(k)

\* The configuration errors named by the claim: a length or stride list
\* that has not two components, a stride component <= 0 or above the
\* length component, a length component above a handler's dimension.
BadConfiguration ==
    \/ Len(length) # 2
    \/ Len(stride) # 2
    \/ \E a \in 1..2 : stride[a] <= 0 \/ stride[a] > length[a]
    \/ \E h \in DOMAIN handlers : \E a \in 1..2 : length[a] > HandlerShape(h)[a]

\* C5 - Configuration errors are raised at build time for every input:
\* whenever patching is requested and the configuration is bad, the build
\* has raised once load_filenames is over, whatever slices were accepted.
C5_ConfigErrorAtBuild ==
    (phase # "new" /\ is_2d_patch /\ BadConfiguration) => phase = "failed"

\* The slices the claim calls accepted, as (pair, slice) positions.
AcceptedSlices ==
    {ps \in (DOMAIN filename_pairs) \X (1..MaxSlices) :
        /\ ps[2] \in DOMAIN filename_pairs[ps[1]].slices
        /\ LET sl == filename_pairs[ps[1]].slices[ps[2]] IN
           /\ (~slice_filter_fn \/ sl.keep)
           /\ ~(roi_params.suffix_set /\ roi_params.thr_is_int /\ sl.roi_drop)}

\* (pair, slice) of the item at position k of indexes, in no-patch mode.
ItemSlice(k) == <<indexes[k][1].input[1].pair, indexes[k][1].input[1].slice>>

\* C7 - No-patch mode index size: after load_filenames without patching,
\* len(indexes) is the number of accepted slices, the items are those of
\* the accepted slices, in filename-pair order then slice order.
C7_NoPatchIndexSize ==
    (phase # "new" /\ ~is_2d_patch) =>
        /\ Len(indexes) = Cardinality(AcceptedSlices)
        /\ \A k \in DOMAIN indexes : ItemSlice(k) \in AcceptedSlices
        /\ \A j, k \in DOMAIN indexes :
              j < k => \/ ItemSlice(j)[1] < ItemSlice(k)[1]
                       \/ /\ ItemSlice(j)[1] = ItemSlice(k)[1]
                          /\ ItemSlice(j)[2] < ItemSlice(k)[2]

\* A no-patch build over two volumes in which the slice filter dropped a
\* slice, the ROI filter dropped another one, and slices of both volumes
\* were accepted.
C7_Witness ==
    /\ phase = "built" /\ ~is_2d_patch
    /\ Len(filename_pairs) = 2
    /\ \E k \in DOMAIN indexes : ItemSlice(k)[1] = 1
    /\ \E k \in DOMAIN indexes : ItemSlice(k)[1] = 2
    /\ \E sl \in {filename_pairs[1].slices[s] : s \in DOMAIN filename_pairs[1].slices} :
          slice_filter_fn /\ ~sl.keep
    /\ \E sl \in {filename_pairs[1].slices[s] : s \in DOMAIN filename_pairs[1].slices} :
          sl.keep /\ slice_filter_roi /\ sl.roi_drop

----------------------------------------------------------------------------
\* Properties of the fetch (checked under Spec).

\* Worker w holds a bundle: its fetch got past the lookup of lines 186-190.
Active(w) == ref[w].store # "none"

\* The bundle the running fetch of w was given, as the build left it.
BuiltBundle(w) ==
    IF is_2d_patch THEN built[1][coord[w].handler_index + 1]
    ELSE built[2][ListPos(Len(built[2]), index[w]) + 1]

\* The ground-truth metadata of that bundle for the rater of the fetch.
BuiltGtMetadata(w) ==
    LET e == BuiltBundle(w)[1].gt_metadata
    IN  [c \in DOMAIN e |->
            IF e[c].list THEN e[c].items[idx_rater[w] + 1] ELSE e[c].items[1]]

\* The data types of the transform calls made so far by the fetch of w.
CallTypes(w) == [k \in DOMAIN calls[w] |-> calls[w][k].data_type]

\* C3 - Per-fetch ordering: a segmentation fetch calls the transform
\* pipeline exactly three times, for roi, then im, then gt (so no im or gt
\* call precedes the roi call); the im call receives the input metadata
\* with the ROI call's output metadata merged in, the gt call the
\* ground-truth metadata with the im call's output metadata merged in.
C3_TransformOrder ==
    \A w \in Workers :
        (task = "segmentation" /\ Active(w)) =>
            /\ CallTypes(w) = SubSeq(<<"roi", "im", "gt">>, 1, Len(calls[w]))
            /\ pc[w] \in {"patch", "done"} => Len(calls[w]) = 3
            /\ Len(calls[w]) >= 2 =>
                  calls[w][2].metadata =
                      update_metadata(calls[w][1].out,
                                      BuiltBundle(w)[1].input_metadata)
            /\ Len(calls[w]) >= 3 =>
                  calls[w][3].metadata =
                      update_metadata(calls[w][2].out, BuiltGtMetadata(w))

\* A finished segmentation fetch of a bundle with an ROI: three calls, and
\* the parameters stored by the ROI call reached the im and the gt call.
C3_Witness ==
    \E w \in Workers :
        /\ task = "segmentation" /\ pc[w] = "done"
        /\ Len(calls[w]) = 3
        /\ calls[w][2].metadata[1].roi_params = 1
        /\ calls[w][3].metadata[1].roi_params = 1
        /\ calls[w][3].metadata[1].im_params = 1

\* C4 - Fetch isolation: whatever fetches run, in whatever interleaving,
\* the shared handlers and indexes lists stay what the build left.
C4_FetchIsolation ==
    phase # "new" => <<handlers, indexes>> = built

\* Two fetches of the same handler in patch mode, one finished and one
\* still running, whose transforms have written into their bundles and
\* whose windows differ.
C4_Witness ==
    /\ is_2d_patch
    /\ pc[1] = "done" /\ pc[2] = "patch"
    /\ coord[1].handler_index = coord[2].handler_index
    /\ coord[1] # coord[2]
    /\ local[1][1].input[1].touched /\ local[2][1].input[1].touched
    /\ local[1][1].input_metadata[1].coord # <<>>

\* C6 - Multi-rater consistency: a fetch of a multi-rater bundle draws one
\* rater index r with 0 <= r < number of raters of class 0, and every
\* label class c of its bundle then holds the array and the metadata of
\* rater r of class c.
C6_RaterConsistency ==
    \A w \in Workers :
        (Active(w) /\ pc[w] # "rater" /\ BuiltBundle(w)[1].gt[1].list) =>
            LET orig == BuiltBundle(w)[1]
                seg == Bundle(w)[1]
                r == idx_rater[w]
            IN  /\ 0 <= r /\ r < Len(orig.gt[1].items)
                /\ \A c \in DOMAIN orig.gt :
                      /\ ~seg.gt[c].list
                      /\ seg.gt[c].items[1].rater = r
                      /\ seg.gt[c].items[1].ch = c
                      /\ Len(seg.gt[c].items) = 1
                      /\ ~seg.gt_metadata[c].list
                /\ pc[w] = "roi" =>
                      \A c \in DOMAIN orig.gt :
                          /\ seg.gt[c].items[1] = orig.gt[c].items[r + 1]
                          /\ seg.gt_metadata[c].items[1] =
                                 orig.gt_metadata[c].items[r + 1]

\* Two fetches of two-class multi-rater bundles that drew different raters.
C6_Witness ==
    /\ layout.n_classes = 2
    /\ idx_rater[1] = 0 /\ idx_rater[2] = 1
    /\ pc[1] = "done" /\ pc[2] = "done"
    /\ index[1] = index[2]

\* C8 - Fetch index bounds: a fetch whose index is outside [0, len(index))
\* (negative ones included) raises IndexError and returns no sample; a
\* fetch whose index is inside does not raise IndexError.
C8_IndexBounds ==
    \A w \in Workers :
        pc[w] # "idle" =>
            IF 0 <= index[w] /\ index[w] < Len(indexes)
            THEN raised[w] # "IndexError"
            ELSE raised[w] = "IndexError" /\ data_dict[w] = NoDict

\* The planes of a returned tensor have the size of the patch.
PatchSized(stack) ==
    stack.none \/ (stack.dims[2] = length[1] /\ stack.dims[3] = length[2])

\* C9 - Shape mismatch is an error: in patch mode a fetch never returns a
\* sample whose input, ground-truth or ROI planes are smaller than
\* (length[0], length[1]); a window that does not fit the transformed
\* tensor makes the fetch fail.
C9_ShapeMismatchIsError ==
    \A w \in Workers :
        (is_2d_patch /\ pc[w] = "done") =>
            /\ PatchSized(data_dict[w].input)
            /\ PatchSized(data_dict[w].gt)
            /\ PatchSized(data_dict[w].roi)

\* C10 - Classification task: a classification fetch of a valid index, in
\* patch and in no-patch mode, never calls the ground-truth transform,
\* never binarizes or crops the ground truth, and ends with the raw label
\* as a tensor of one element.
C10_ClassificationGt ==
    \A w \in Workers :
        (task = "classification" /\ Active(w)) =>
            /\ \A k \in DOMAIN calls[w] : calls[w][k].data_type # "gt"
            /\ \A k \in DOMAIN ops[w] : ops[w][k] \notin {"binarize", "crop_gt"}
            /\ raised[w] = ""
            /\ pc[w] = "done" =>
                  /\ data_dict[w].gt.dims = <<1>>
                  /\ data_dict[w].gt.src = <<BuiltBundle(w)[1].gt[1].items[
                         IF idx_rater[w] >= 0 THEN idx_rater[w] + 1 ELSE 1]>>

\* t[:, x_min:x_max, y_min:y_max] of a tensor t of planes H x W, as the
\* claim words it: channels kept, rows and columns from the window, the
\* window's ends cut at the tensor's ends.
SubWindow(full, c) ==
    LET H == full.dims[2]
        W == full.dims[3]
        x0 == Min(c.x_min, H)
        x1 == Min(c.x_max, H)
        y0 == Min(c.y_min, W)
        y1 == Min(c.y_max, W)
    IN  [none |-> FALSE, kind |-> full.kind,
         dims |-> <<full.dims[1], x1 - x0, y1 - y0>>, src |-> full.src,
         win |-> <<x0, x1, y0, y1>>, binarized |-> full.binarized]

XStarts(h) ==
    LET rows == SelectSeq(indexes, LAMBDA r :
                    r.handler_index = h - 1 /\ r.y_min = 0)
    IN  [k \in DOMAIN rows |-> rows[k].x_min]
YStarts(h) ==
    LET cols == SelectSeq(indexes, LAMBDA r :
                    r.handler_index = h - 1 /\ r.x_min = 0)
    IN  [k \in DOMAIN cols |-> cols[k].y_min]

\* C12 (as the code has it) - Boundary example: on an axis of size 10 with
\* length 4 and stride 3 the starts emitted are [0, 3, 6]: three tiles,
\* the last one ending at 10, none of them twice.
C12_BoundaryStarts ==
    (phase = "built" /\ is_2d_patch /\ length = <<4, 4>> /\ stride = <<3, 3>>) =>
        \A h \in DOMAIN handlers :
            /\ HandlerShape(h)[1] = 10 => XStarts(h) = <<0, 3, 6>>
            /\ HandlerShape(h)[2] = 10 => YStarts(h) = <<0, 3, 6>>

\* C12 - Boundary example: on an axis of size 10 with length 4 and stride
\* 3 the starts emitted are [0, 3, 6, 6]: four tiles, the last one a
\* duplicate of the third.
C12_BoundaryStartsFour ==
    (phase = "built" /\ is_2d_patch /\ length = <<4, 4>> /\ stride = <<3, 3>>) =>
        \A h \in DOMAIN handlers :
            /\ HandlerShape(h)[1] = 10 => XStarts(h) = <<0, 3, 6, 6>>
            /\ HandlerShape(h)[2] = 10 => YStarts(h) = <<0, 3, 6, 6>>

\* The built index of the 10 x 10 example: nine tiles.
C12_Witness ==
    /\ phase = "built"
    /\ length = <<4, 4>> /\ stride = <<3, 3>>
    /\ HandlerShape(1) = <<10, 10>>
    /\ Len(indexes) = 9

\* ceil(a / b) for a >= 0 and b > 0.
CeilDiv(a, b) == (a + b - 1) \div b

\* The records of handler h in the order they stand in indexes.
RecordsOf(h) == SelectSeq(indexes, LAMBDA r : r.handler_index = h - 1)

\* A sequence of starts as the claim describes it: strictly increasing,
\* from 0 to size - L, of ceil((size - L) / S) + 1 elements.
GoodStarts(st, L, S, size) ==
    /\ Len(st) = CeilDiv(size - L, S) + 1
    /\ st[1] = 0
    /\ st[Len(st)] = size - L
    /\ \A k \in 1..(Len(st) - 1) : st[k] < st[k + 1]

\* C18 - Tile count and distinctness: after a build in patch mode, for
\* every handler with 0 < S <= L <= size on both axes, the clamped starts
\* along each axis are strictly increasing from 0 to size - L and number
\* ceil((size - L) / S) + 1; the handler's records are the product of the
\* x starts and the y starts, appended x-major, and no two are equal.
C18_TileCount ==
    (phase = "built" /\ is_2d_patch) =>
        \A h \in DOMAIN handlers :
            ValidGeometry(HandlerShape(h)) =>
                LET X == XStarts(h)
                    Y == YStarts(h)
                    R == RecordsOf(h)
                    ny == Len(Y)
                IN  /\ GoodStarts(X, length[1], stride[1], HandlerShape(h)[1])
                    /\ GoodStarts(Y, length[2], stride[2], HandlerShape(h)[2])
                    /\ Len(R) =
                         (CeilDiv(HandlerShape(h)[1] - length[1], stride[1]) + 1)
                         * (CeilDiv(HandlerShape(h)[2] - length[2], stride[2]) + 1)
                    /\ \A k \in DOMAIN R :
                          /\ R[k].x_min = X[((k - 1) \div ny) + 1]
                          /\ R[k].y_min = Y[((k - 1) % ny) + 1]
                    /\ \A j, k \in DOMAIN R : j # k => R[j] # R[k]

\* A built index with a handler tiled in more than one row and more than
\* one column, the last of each moved back, and a second handler.
C18_Witness ==
    /\ phase = "built" /\ is_2d_patch
    /\ Len(handlers) = 2
    /\ Len(XStarts(1)) > 1 /\ Len(YStarts(1)) > 1
    /\ Len(XStarts(1)) # Len(YStarts(1))
    /\ \E k \in DOMAIN indexes : FlushRightTile(k)

\* The handlers that fail the checks of prepare_indices.
BadHandlers == {h \in DOMAIN handlers : ~ValidGeometry(HandlerShape(h))}

\* C19 (as the code has it) - Build failure: when prepare_indices raises,
\* it raises at the first handler that fails the checks; indexes then
\* holds all the PatchRecords of the handlers before that one and none of
\* that handler or a later one.
C19_BuildFailurePartial ==
    (phase = "failed" /\ is_2d_patch) =>
        /\ BadHandlers # {}
        /\ LET first == CHOOSE h \in BadHandlers : \A g \in BadHandlers : h <= g
           IN  /\ \A k \in DOMAIN indexes : indexes[k].handler_index < first - 1
               /\ \A h \in 1..(first - 1) :
                     Len(RecordsOf(h)) =
                         (CeilDiv(HandlerShape(h)[1] - length[1], stride[1]) + 1)
                         * (CeilDiv(HandlerShape(h)[2] - length[2], stride[2]) + 1)

\* C19 - Build failure is all-or-nothing: when prepare_indices raises for
\* any handler, no PatchRecord has been appended by that build.
C19_BuildFailureAtomic ==
    (phase = "failed" /\ is_2d_patch) => Len(indexes) = 0

\* A build that failed at its second handler, too small for the length,
\* after tiling the first.
C19_Witness ==
    /\ phase = "failed"
    /\ error = "size"
    /\ Len(handlers) = 2
    /\ Len(indexes) > 1

\* What a returned tensor holds: where its values come from, its channels,
\* and the rows and columns of the transformed planes it spans.
TensorValue(t) ==
    IF t.none THEN [none |-> TRUE, src |-> <<>>, kind |-> "", binarized |-> FALSE,
                    channels |-> 0, region |-> <<>>]
    ELSE [none |-> FALSE, src |-> t.src, kind |-> t.kind,
          binarized |-> t.binarized, channels |-> t.dims[1],
          region |-> IF t.win = <<>> THEN <<0, t.dims[2], 0, t.dims[3]>>
                     ELSE t.win]

C13_NoSharedGenerator == [][random_state' = random_state]_vars

----------------------------------------------------------------------------
\* Properties of the transforms (checked under SpecTransforms).

\* C15 - Dilation identity: a DilateGT whose factor is <= 0, or whose
\* sample has an all-background ground truth, returns the sample with its
\* gt unchanged, raises nothing and draws no random number.
C15_DilationIdentity ==
    (/\ tname = "DilateGT"
     /\ tpc # "ready"
     /\ (dil_factor <= 0 \/ \A c \in Cells : sample_in.gt[c] = 0)) =>
        /\ tpc = "returned"
        /\ terror = ""
        /\ sample_dict = sample_in
        /\ random_state = 0

\* A finished call with factor 0 on a mask that holds a lesion.
C15_Witness ==
    /\ tname = "DilateGT"
    /\ tpc = "returned"
    /\ dil_factor = 0
    /\ np_sum(sample_in.gt) = 2

\* A mask with one lesion away from the border: its foreground is not
\* empty, lies in the middle row off the first and last column, and is
\* one run of cells.
SingleLesion(m) ==
    LET fg == {c \in Cells : m[c] # 0}
    IN  /\ fg # {}
        /\ \A c \in fg : c[1] = 2 /\ 1 < c[2] /\ c[2] < MaxDim
        /\ \A a, b \in fg : \A k \in a[2]..b[2] : <<2, k>> \in fg

\* C16 - Dilation keeps an enlarged lesion: for every factor > 0 and every
\* mask with a single lesion away from the border, DilateGT completes and
\* returns a ground truth of the same shape whose support is not empty and
\* overlaps the original lesion.
C16_DilationKeepsLesion ==
    (/\ tname = "DilateGT"
     /\ tpc # "ready"
     /\ dil_factor > 0
     /\ SingleLesion(sample_in.gt)) =>
        /\ tpc = "returned"
        /\ terror = ""
        /\ DOMAIN sample_dict.gt = DOMAIN sample_in.gt
        /\ \E c \in Cells : sample_dict.gt[c] # 0 /\ sample_in.gt[c] # 0

\* C17 - ROI crop provenance: a labeled ROICrop2D returns as gt the crop of
\* the sample's own gt array at the window (fh, fw, th, tw), the window it
\* applied to the original input; the gt is not cut from the input nor
\* from an already cropped buffer.
C17_RoiCropGt ==
    (tname = "ROICrop2D" /\ tpc = "returned" /\ labeled) =>
        LET fh == CropCorner(sample_in.roi, crop_size).fh
            fw == CropCorner(sample_in.roi, crop_size).fw
            window == [top |-> fh, left |-> fw,
                       height |-> crop_size[1], width |-> crop_size[2]]
        IN  /\ sample_dict.input = [src |-> "input"] @@ window
            /\ sample_dict.gt = [src |-> "gt"] @@ window

====
